---- MODULE Spec2Model ----
(***************************************************************************)
(* License verifier (lib.go) and license acquisition client (client.go).   *)
(*                                                                         *)
(* Byte strings are sequences of lines; a line is a record [kind, label,   *)
(* der].  A PEM block is a "begin" line, a "b64" line carrying the encoded *)
(* DER object and an "end" line with the same label.  A DER object is a    *)
(* record; typ = "cert" marks an X.509 certificate.                        *)
(***************************************************************************)
EXTENDS Integers, Sequences, FiniteSets, TLC

\* ------------------------------------------------------------- bounds
\* Number of poll intervals the ticker may elapse in one behaviour.
MaxTicks == 2
\* Number of redirects http.DefaultClient follows before it gives up (net/http
\* follows up to ten).
MaxRedirects == 2

\* ------------------------------------------------------- certificates
\* Values of LicenseOptions.clusterUID: "" is the zero value, which a direct
\* call of validateLicense can carry.
ClusterUIDs == {"", "cluster-123", "cluster-456"}
\* string(ns.UID) of the kube-system namespace: the UID the API server
\* assigned to the object.
NamespaceUIDs == ClusterUIDs \ {""}
Products == {"Acme", "Other"}
CANames == {"LicenseCA", "RogueCA"}

NoDer == [typ |-> "none", subject |-> "", issuer |-> "", dns |-> {}, org |-> {},
          eku |-> {}, expired |-> FALSE]
JunkDer == [NoDer EXCEPT !.typ = "junk"]

\* A leaf certificate issued (signed) by `issuer`.
LeafCert(issuer, dns, org, eku, expired) ==
    [typ |-> "cert", subject |-> "license", issuer |-> issuer, dns |-> dns,
     org |-> org, eku |-> eku, expired |-> expired]

\* A self-signed CA certificate.
CACert(name) ==
    [typ |-> "cert", subject |-> name, issuer |-> name, dns |-> {}, org |-> {},
     eku |-> {}, expired |-> FALSE]

LeafCerts ==
    { LeafCert(i, d, o, e, x) :
        i \in CANames,
        d \in {{}, {"cluster-123"}, {"cluster-456"}},
        o \in {{}, {"Acme"}, {"Other"}, {"Other", "Acme"}},
        e \in {{}, {"clientAuth"}, {"serverAuth"}},
        x \in BOOLEAN }

\* ------------------------------------------------------- byte strings
TextLine == [kind |-> "text", label |-> "", der |-> NoDer]
BeginLine(label) == [kind |-> "begin", label |-> label, der |-> NoDer]
EndLine(label) == [kind |-> "end", label |-> label, der |-> NoDer]
B64Line(der) == [kind |-> "b64", label |-> "", der |-> der]

NilBytes == << >>
PemOf(label, der) == << BeginLine(label), B64Line(der), EndLine(label) >>
TruncatedPem(der) == << BeginLine("CERTIFICATE"), B64Line(der) >>
\* A block whose end line follows its begin line: no payload.
EmptyPem(label) == << BeginLine(label), EndLine(label) >>

\* The trust root and product the product binary is built for.
LicenseCA == PemOf("CERTIFICATE", CACert("LicenseCA"))
ProductName == "Acme"

\* What the license file may hold.
LicenseFiles ==
    { NilBytes, << TextLine >>, << TextLine, TextLine >>,
      PemOf("CERTIFICATE", JunkDer), TruncatedPem(CACert("LicenseCA")),
      EmptyPem("CERTIFICATE"),
      << BeginLine("CERTIFICATE"), B64Line(JunkDer), EndLine("OTHER") >> }
    \cup { PemOf("CERTIFICATE", c) : c \in LeafCerts }
    \cup { TruncatedPem(c) : c \in { LeafCert("LicenseCA", {"cluster-123"}, {"Acme"},
                                              {"clientAuth"}, FALSE) } }
    \cup { << TextLine >> \o PemOf("CERTIFICATE", c) :
             c \in { LeafCert("LicenseCA", {"cluster-123"}, {"Acme"},
                              {"clientAuth"}, FALSE) } }

\* What a caCert field may hold.
CaCertValues ==
    { NilBytes, << TextLine >>, LicenseCA,
      PemOf("CERTIFICATE", CACert("RogueCA")),
      PemOf("CERTIFICATE", JunkDer),
      PemOf("PRIVATE KEY", CACert("LicenseCA")),
      EmptyPem("CERTIFICATE") \o LicenseCA,
      PemOf("CERTIFICATE", JunkDer) \o LicenseCA }

\* ----------------------------------------------------- encoding/pem
NoBlock == [found |-> FALSE, Type |-> "", Bytes |-> NoDer, rest |-> << >>]

\* pem.Decode: the first well-formed block of data and what follows it.  The
\* payload may be empty (the end line directly after the begin line): the
\* block then has zero bytes.  A begin line that is not followed by a payload
\* and its matching end line is skipped and the search goes on behind it.
RECURSIVE pemDecode(_)
pemDecode(data) ==
    IF Len(data) = 0 THEN NoBlock
    ELSE IF /\ data[1].kind = "begin"
            /\ Len(data) >= 2
            /\ data[2].kind = "end"
            /\ data[2].label = data[1].label
         THEN [found |-> TRUE, Type |-> data[1].label, Bytes |-> NoDer,
               rest |-> SubSeq(data, 3, Len(data))]
    ELSE IF /\ data[1].kind = "begin"
            /\ Len(data) >= 3
            /\ data[2].kind = "b64"
            /\ data[3].kind = "end"
            /\ data[3].label = data[1].label
         THEN [found |-> TRUE, Type |-> data[1].label, Bytes |-> data[2].der,
               rest |-> SubSeq(data, 4, Len(data))]
         ELSE pemDecode(Tail(data))

\* ----------------------------------------------------- crypto/x509
\* x509.ParseCertificate: the error is non-nil unless the DER is a certificate.
ParseCertificateOK(der) == der.typ = "cert"

\* CertPool.AppendCertsFromPEM: every CERTIFICATE block that parses is added.
RECURSIVE AppendCertsFromPEM(_)
AppendCertsFromPEM(pemCerts) ==
    LET block == pemDecode(pemCerts)
    IN  IF ~block.found THEN {}
        ELSE (IF block.Type = "CERTIFICATE" /\ ParseCertificateOK(block.Bytes)
              THEN {block.Bytes} ELSE {})
             \cup AppendCertsFromPEM(block.rest)

\* Certificate.VerifyHostname for a non-empty name.
VerifyHostname(cert, name) == name \in cert.dns

\* A certificate with no extended key usage is acceptable for every usage.
KeyUsageOK(cert, usage) == cert.eku = {} \/ usage \in cert.eku \/ "any" \in cert.eku

\* Certificate.Verify with VerifyOptions{DNSName, Roots, KeyUsages}: validity
\* period, name, a chain to a root of the pool, and the key usage.
CertVerify(cert, dnsName, roots, usage) ==
    /\ ~cert.expired
    /\ (dnsName # "" => VerifyHostname(cert, dnsName))
    /\ \/ cert \in roots
       \/ \E r \in roots : r.subject = cert.issuer /\ ~r.expired /\ KeyUsageOK(r, usage)
    /\ KeyUsageOK(cert, usage)

\* ------------------------------------------------------------ errors
\* An error value: its message and the value formatted into it.
Err(msg, arg) == [msg |-> msg, arg |-> arg]
NilErr == Err("", "")
ErrWaitTimeout == Err("timed out waiting for the condition", "")
\* Value of vresult while validateLicense has not been called.
NotCalled == Err("<validateLicense not called>", "")

\* ------------------------------------------------------- LicenseOptions
\* The struct literal of both entry points: only licenseFile and config are set.
NewLicenseOptions ==
    [clusterUID |-> "", productName |-> "", caCert |-> NilBytes, license |-> NilBytes,
     config |-> "config", k8sClient |-> "nil", licenseFile |-> "license.txt"]

\* Variant of validateLicense that skips the subject organization check.
validateLicense_NoOrgCheck(o) ==
    LET block == pemDecode(o.license)
        roots == AppendCertsFromPEM(o.caCert)
    IN  IF ~block.found THEN Err("failed to parse certificate PEM", "")
        ELSE IF ~ParseCertificateOK(block.Bytes) THEN Err("failed to parse certificate", "")
        ELSE IF roots = {} THEN Err("failed to parse root certificate", "")
        ELSE IF ~CertVerify(block.Bytes, o.clusterUID, roots, "clientAuth")
             THEN Err("failed to verify certificate", "")
        ELSE NilErr

\* Variant of validateLicense that checks the organization before the trust root.
validateLicense_OrgFirst(o) ==
    LET block == pemDecode(o.license)
        roots == AppendCertsFromPEM(o.caCert)
    IN  IF ~block.found THEN Err("failed to parse certificate PEM", "")
        ELSE IF ~ParseCertificateOK(block.Bytes) THEN Err("failed to parse certificate", "")
        ELSE IF o.productName \notin block.Bytes.org
             THEN Err("license was not issued for %s", o.productName)
        ELSE IF roots = {} THEN Err("failed to parse root certificate", "")
        ELSE IF ~CertVerify(block.Bytes, o.clusterUID, roots, "clientAuth")
             THEN Err("failed to verify certificate", "")
        ELSE NilErr

\* Variant of validateLicense that does not bind the certificate to the cluster.
validateLicense_NoDNSName(o) ==
    LET block == pemDecode(o.license)
        roots == AppendCertsFromPEM(o.caCert)
    IN  IF ~block.found THEN Err("failed to parse certificate PEM", "")
        ELSE IF ~ParseCertificateOK(block.Bytes) THEN Err("failed to parse certificate", "")
        ELSE IF roots = {} THEN Err("failed to parse root certificate", "")
        ELSE IF ~CertVerify(block.Bytes, "", roots, "clientAuth")
             THEN Err("failed to verify certificate", "")
        ELSE IF o.productName \notin block.Bytes.org
             THEN Err("license was not issued for %s", o.productName)
        ELSE NilErr

\* LicenseOptions.validateLicense: the error it returns, NilErr for nil.
validateLicense(o) ==
    LET block == pemDecode(o.license)
        roots == AppendCertsFromPEM(o.caCert)
    IN  IF ~block.found THEN Err("failed to parse certificate PEM", "")
        ELSE IF ~ParseCertificateOK(block.Bytes) THEN Err("failed to parse certificate", "")
        ELSE IF roots = {} THEN Err("failed to parse root certificate", "")
        ELSE IF ~CertVerify(block.Bytes, o.clusterUID, roots, "clientAuth")
             THEN Err("failed to verify certificate", "")
        ELSE IF o.productName \notin block.Bytes.org
             THEN Err("license was not issued for %s", o.productName)
        ELSE NilErr

\* ---------------------------------------------------------------- state
VARIABLES
    entry,       \* the function the host program called
    pc,          \* position of the call
    opt,         \* the LicenseOptions of the session
    stepErr,     \* error returned by the session step that failed, NilErr if none
    vresult,     \* value returned by the last validateLicense call
    retval,      \* error returned to the caller once pc = "returned"
    stopClosed,  \* stopCh has been closed
    stopAtTick,  \* intervals elapsed when stopCh was closed
    stopForwarded, \* the poll loop's done channel is closed
    ticks,       \* intervals elapsed since PollUntil started
    attempts,    \* verification attempts started
    licenseErr,  \* handleLicenseVerificationFailure: its argument
    herr,        \* handleLicenseVerificationFailure: its local variable err
    hsteps,      \* handleLicenseVerificationFailure: reporting steps performed
    hparent,     \* handleLicenseVerificationFailure: the root controller found
    houtcome,    \* how the handler body ended: "", "return" or "panic"
    sigintSent,  \* SIGINT was sent to the own process
    exitCode,    \* status passed to os.Exit, 0 while the process runs
    events,      \* the cluster's events, by root controller
    EnforceLicense, \* info.EnforceLicense, set when the binary is built
    creq,        \* acquisition: arguments of the call
    curl,        \* acquisition: the URL of the request the call builds
    posts,       \* acquisition: round trips of a POST request started
    cmethod,     \* acquisition: method of the request under way, "" before it
    redirects,   \* acquisition: redirects followed by http.DefaultClient
    cresp,       \* acquisition: the issuer's response
    cres,        \* acquisition: what the call returned
    events0,     \* the cluster's events when the call started
    inCluster,   \* what meta.PossiblyInCluster answered: "unknown", "yes", "no"
    licRead      \* the attempt in which opt.license was last read, and the bytes

vars == << entry, pc, opt, stepErr, vresult, retval, stopClosed, stopAtTick,
                    stopForwarded, stopForwarded, ticks,
           attempts, licenseErr, herr, hsteps, hparent, houtcome, sigintSent,
           exitCode, events, EnforceLicense, creq, curl, posts, cmethod, redirects,
           cresp, cres,
           events0, inCluster, licRead >>

\* History kept for the properties; the program does not read it.
ghostVars == << events0, inCluster, licRead >>
NeverRead == [attempt |-> 0, bytes |-> NilBytes]
InitHistory ==
    /\ events0 = events
    /\ inCluster = "unknown"
    /\ licRead = NeverRead

clientVars == << EnforceLicense, creq, curl, posts, cmethod, redirects, cresp, cres >>

Roots == {"deploy-a", "deploy-b"}

NoEvent == [count |-> 0, first |-> "zero", last |-> "zero", type |-> "", reason |-> "",
            source |-> "", message |-> NilErr, involved |-> ""]

\* An event left on the root controller by an earlier run of the process.
OldEvent(root) ==
    [count |-> 1, first |-> "t0", last |-> "t0", type |-> "Warning",
     reason |-> "License Verification Failed", source |-> "License Verifier",
     message |-> Err("failed to parse certificate PEM", ""), involved |-> root]

SessionEntries == {"VerifyLicense", "VerifyLicensePeriodically"}

HandlerPcs == {"handler", "hostname", "detectWorkload", "getReference",
               "createOrPatchEvent", "deferKill", "deferExit"}

sessionVars == << stopClosed, stopAtTick, stopForwarded, ticks, attempts >>
handlerVars == << licenseErr, herr, hsteps, hparent, houtcome, sigintSent, exitCode,
                  events >>

\* ------------------------------------------------ strings and URLs
\* A string is a sequence of tokens: a scheme with its "://", a host, "/",
\* a path segment, or "%zz" (an invalid escape).
prodAddress == << "https://", "byte.builders" >>
qaAddress == << "https://", "appscode.ninja" >>
licenseIssuerAPIPath == << "api", "/", "v1", "/", "license", "/", "issue" >>

Schemes == {"https://", "http://"}
NoURL == [ok |-> FALSE, scheme |-> "", host |-> "", path |-> << >>]

\* url.Parse: scheme, host and path of a string; an invalid escape is an error.
urlParse(str) ==
    IF \E i \in 1..Len(str) : str[i] = "%zz" THEN NoURL
    ELSE IF Len(str) >= 2 /\ str[1] \in Schemes /\ str[2] # "/"
    THEN [ok |-> TRUE, scheme |-> str[1], host |-> str[2],
          path |-> SubSeq(str, 3, Len(str))]
    ELSE IF Len(str) >= 1 /\ str[1] \in Schemes
    THEN [ok |-> TRUE, scheme |-> str[1], host |-> "", path |-> Tail(str)]
    ELSE [ok |-> TRUE, scheme |-> "", host |-> "", path |-> str]

\* URL.String: a path that does not start with "/" gets one after a host.
urlString(u) ==
    (IF u.scheme = "" THEN << >> ELSE << u.scheme >>)
    \o (IF u.host = "" THEN << >> ELSE << u.host >>)
    \o (IF u.host # "" /\ u.path # << >> /\ u.path[1] # "/" THEN << "/" >> ELSE << >>)
    \o u.path

IsSegment(t) == t # "/"

\* path.Clean, the segments: "." is dropped, ".." removes the segment before
\* it (kept at the front of a relative path, dropped at the root).
RECURSIVE cleanSegments(_, _, _)
cleanSegments(segs, out, rooted) ==
    IF segs = << >> THEN out
    ELSE IF Head(segs) = "." THEN cleanSegments(Tail(segs), out, rooted)
    ELSE IF Head(segs) = ".."
         THEN IF out # << >> /\ out[Len(out)] # ".."
              THEN cleanSegments(Tail(segs), SubSeq(out, 1, Len(out) - 1), rooted)
              ELSE IF rooted THEN cleanSegments(Tail(segs), out, rooted)
              ELSE cleanSegments(Tail(segs), Append(out, ".."), rooted)
    ELSE cleanSegments(Tail(segs), Append(out, Head(segs)), rooted)

RECURSIVE joinSegments(_)
joinSegments(segs) ==
    IF segs = << >> THEN << >>
    ELSE IF Len(segs) = 1 THEN segs
    ELSE << Head(segs), "/" >> \o joinSegments(Tail(segs))

\* path.Clean of a non-empty path.
pathClean(p) ==
    LET rooted == p[1] = "/"
        segs == cleanSegments(SelectSeq(p, IsSegment), << >>, rooted)
    IN  IF rooted THEN << "/" >> \o joinSegments(segs)
        ELSE IF segs = << >> THEN << "." >>
        ELSE joinSegments(segs)

\* path.Join of two elements: empty elements are ignored, the rest is joined
\* with "/" and cleaned; the result is empty when both are empty.
pathJoin(a, b) ==
    IF a = << >> /\ b = << >> THEN << >>
    ELSE IF a = << >> THEN pathClean(b)
    ELSE IF b = << >> THEN pathClean(a)
    ELSE pathClean(a \o << "/" >> \o b)

\* strconv.ParseBool: the value, false when the string is not a boolean.
ParseBool(str) == str \in {"1", "t", "T", "TRUE", "true", "True"}

\* Variant of SkipLicenseVerification that returns the parsed flag itself.
SkipLicenseVerification_NotNegated(flag) == ParseBool(flag)

\* info.SkipLicenseVerification, for a value of info.EnforceLicense.
SkipLicenseVerification(flag) == ~ParseBool(flag)

\* info.APIServerAddress.
APIServerAddress(flag) ==
    IF SkipLicenseVerification(flag) THEN urlParse(qaAddress) ELSE urlParse(prodAddress)

\* info.LicenseIssuerAPIEndpoint.
LicenseIssuerAPIEndpoint(flag) ==
    LET u == APIServerAddress(flag)
    IN  urlString([u EXCEPT !.path = pathJoin(u.path, licenseIssuerAPIPath)])

\* NewClient: the url of the client, ok = FALSE when baseURL does not parse.
NewClientURL(baseURL, flag) ==
    IF baseURL = << >>
    THEN [ok |-> TRUE, url |-> LicenseIssuerAPIEndpoint(flag)]
    ELSE LET u == urlParse(baseURL)
         IN  IF ~u.ok THEN [ok |-> FALSE, url |-> << >>]
             ELSE [ok |-> TRUE,
                   url |-> urlString([u EXCEPT !.path =
                                        pathJoin(u.path, licenseIssuerAPIPath)])]

EnforceLicenseValues == {"", "true", "false", "1", "0", "yes"}

BaseURLs ==
    { << >>,
      << "https://", "lic.example" >>,
      << "https://", "lic.example", "/" >>,
      << "https://", "lic.example", "/", "base" >>,
      << "https://", "lic.example", "/", "base", "/" >>,
      << "http://", "lic.example", "/", "base", "/", "..", "/", "v2" >>,
      << "https://", "lic.example", "/", "%zz" >> }

\* ------------------------------------------------- issuer responses
StatusOK == 200
StatusCodes == {200, 201, 204, 307, 403, 404, 406, 415, 500}

\* A response body: JSON text with an optional "license" member holding a
\* string (base64 of `data` when b64 is TRUE), or text that is not JSON
\* (kind "text", or kind "unknown" for the text "unknown").
Body(kind, member, b64, data) ==
    [kind |-> kind, member |-> member, b64 |-> b64, data |-> data]
NoBody == Body("empty", "absent", FALSE, NilBytes)
\* The text "unknown".
UnknownBody == Body("unknown", "absent", FALSE, NilBytes)
Bodies ==
    { NoBody,
      UnknownBody,
      Body("text", "absent", FALSE, NilBytes),
      Body("json", "absent", FALSE, NilBytes),
      Body("json", "string", TRUE, LicenseCA),
      Body("json", "string", FALSE, NilBytes),
      Body("json", "number", FALSE, NilBytes) }

\* An acquisition error: its kind, and for a server-response error the
\* status code and the raw body it carries.
AcqErr(kind, code, body) == [kind |-> kind, code |-> code, body |-> body]
NoAcqErr == AcqErr("nil", 0, NoBody)

\* apierrors.NewGenericServerResponse(code, verb, resource, "", serverMessage, 0,
\* false): the server message is the error's message for 403 and 415, and for
\* 406 unless it is empty or the text "unknown"; it is quoted in the message
\* for the status codes from 500 up that have no message of their own; for
\* every other code the error holds the code and a fixed text, the body is
\* dropped.
NewGenericServerResponse(code, serverMessage) ==
    AcqErr("server", code,
           IF \/ code \in {403, 415}
              \/ code = 406 /\ serverMessage \notin {NoBody, UnknownBody}
              \/ code >= 500 /\ code \notin {503, 504}
           THEN serverMessage ELSE NoBody)

\* json.Unmarshal into struct{License []byte `json:"license"`}: an error for
\* text that is not JSON, for a member that is not a string and for a string
\* that is not base64; a missing member leaves License nil.
jsonUnmarshal(body) ==
    IF body.kind # "json" THEN [ok |-> FALSE, License |-> NilBytes]
    ELSE IF body.member = "absent" THEN [ok |-> TRUE, License |-> NilBytes]
    ELSE IF body.member = "string" /\ body.b64 THEN [ok |-> TRUE, License |-> body.data]
    ELSE [ok |-> FALSE, License |-> NilBytes]

NoResponse == [status |-> 0, body |-> NoBody]
NoResult == [done |-> FALSE, license |-> NilBytes, err |-> NoAcqErr, decoded |-> FALSE]
NoRequest == [baseURL |-> << >>, token |-> "", clusterUID |-> "", features |-> << >>]

\* No acquisition call is made in this behaviour.
InitNoClient ==
    /\ EnforceLicense = ""
    /\ creq = NoRequest
    /\ curl = << >>
    /\ posts = 0
    /\ cmethod = ""
    /\ redirects = 0
    /\ cresp = NoResponse
    /\ cres = NoResult

\* State common to every initial state.
InitCommon ==
    /\ stepErr = NilErr
    /\ vresult = NotCalled
    /\ retval = NilErr
    /\ stopClosed = FALSE
    /\ stopAtTick = 0
    /\ stopForwarded = FALSE
    /\ ticks = 0
    /\ attempts = 0
    /\ licenseErr = NilErr
    /\ herr = NilErr
    /\ hsteps = {}
    /\ hparent = ""
    /\ houtcome = ""
    /\ sigintSent = FALSE
    /\ exitCode = 0

\* A direct call of validateLicense on any LicenseOptions value.
InitValidator ==
    /\ entry = "validateLicense"
    /\ pc = "validateLicense"
    /\ opt \in { [NewLicenseOptions EXCEPT !.clusterUID = u, !.productName = p,
                                           !.caCert = ca, !.license = l] :
                   u \in ClusterUIDs, p \in Products \cup {""},
                   ca \in CaCertValues, l \in LicenseFiles }
    /\ events = [r \in Roots |-> NoEvent]
    /\ InitNoClient

\* A call of VerifyLicense or VerifyLicensePeriodically.
InitSession ==
    /\ entry \in SessionEntries
    /\ pc = "createClients"
    /\ opt = NewLicenseOptions
    /\ events \in { [r \in Roots |-> IF r \in old THEN OldEvent(r) ELSE NoEvent] :
                      old \in {{}, {"deploy-a"}} }
    /\ InitNoClient

\* ----------------------------------------------------- session steps
\* `return opt.handleLicenseVerificationFailure(err)`: the handler is entered.
OnSessionError(e) ==
    /\ pc' = "handler"
    /\ retval' = retval
    /\ licenseErr' = e

\* opt.createClients(): kubernetes.NewForConfig succeeds or fails.
CreateClients ==
    /\ entry \in SessionEntries
    /\ pc = "createClients"
    /\ \E ok \in BOOLEAN :
         IF ok
         THEN /\ opt' = [opt EXCEPT !.k8sClient = "client"]
              /\ pc' = "readClusterUID"
              /\ UNCHANGED << stepErr, retval, licenseErr >>
         ELSE /\ opt' = opt
              /\ stepErr' = Err("client construction failed", "")
              /\ OnSessionError(Err("client construction failed", ""))
    /\ UNCHANGED << clientVars, ghostVars, entry, vresult, sessionVars, herr, hsteps, hparent, houtcome,
                    sigintSent, exitCode, events >>

\* wait.PollImmediateUntil in place of wait.PollUntil: the condition function
\* is called at once.
PollUntilStart_Immediate == "readLicenseFromFile"

\* wait.PollUntil starts by waiting for one interval.
PollUntilStart == "pollWait"

\* opt.readClusterUID(): the UID of the kube-system namespace, or an error.
\* VerifyLicense goes on to the attempt, VerifyLicensePeriodically to PollUntil.
ReadClusterUID ==
    /\ entry \in SessionEntries
    /\ pc = "readClusterUID"
    /\ \/ \E uid \in NamespaceUIDs :
            /\ opt' = [opt EXCEPT !.clusterUID = uid]
            /\ pc' = IF entry = "VerifyLicense" THEN "readLicenseFromFile"
                     ELSE PollUntilStart
            /\ attempts' = IF entry = "VerifyLicense" THEN attempts + 1 ELSE attempts
            /\ UNCHANGED << stepErr, retval, licenseErr >>
       \/ /\ opt' = opt
          /\ stepErr' = Err("cluster identity resolution failed", "")
          /\ OnSessionError(Err("cluster identity resolution failed", ""))
          /\ UNCHANGED attempts
    /\ UNCHANGED << clientVars, ghostVars, entry, vresult, stopClosed, stopAtTick, stopForwarded, ticks,
                    herr, hsteps,
                    hparent, houtcome, sigintSent, exitCode, events >>

\* The stop channel handed to wait.PollUntil: never closed.
PollStopCh_NeverStop == FALSE

\* The done channel of the poll loop: wait.PollUntil derives it from the
\* caller's stopCh, a goroutine closes it once stopCh is closed.
PollStopCh == stopForwarded

\* The condition function validates opt.license without reading the file.
ConditionStart_NoRead == "validateLicense"

\* The condition function starts by reading the license file.
ConditionStart == "readLicenseFromFile"

\* wait.PollUntil, one interval elapsed while it waits and its done channel is
\* open: the condition function is called.  Nothing is called before the first
\* interval has elapsed.  A stopCh that is closed but not yet forwarded to the
\* done channel does not hold the tick back.
PollTick ==
    /\ entry = "VerifyLicensePeriodically"
    /\ pc = "pollWait"
    /\ ~PollStopCh
    /\ ticks < MaxTicks
    /\ ticks' = ticks + 1
    /\ attempts' = attempts + 1
    /\ pc' = ConditionStart
    /\ UNCHANGED << clientVars, ghostVars, entry, opt, stepErr, vresult, retval, stopClosed, stopAtTick,
                    stopForwarded, handlerVars >>

\* Every interval calls the condition function, whether or not the previous
\* call has returned.
TickDropped_StartsAttempt ==
    /\ entry = "VerifyLicensePeriodically"
    /\ pc \in {"readLicenseFromFile", "validateLicense"} \cup HandlerPcs
    /\ ticks < MaxTicks
    /\ ticks' = ticks + 1
    /\ attempts' = attempts + 1
    /\ UNCHANGED << clientVars, ghostVars, entry, pc, opt, stepErr, vresult, retval, stopClosed, stopAtTick,
                    stopForwarded, handlerVars >>

\* An interval elapses while the condition function (or the handler it called)
\* is still running: the loop is not waiting, the tick is dropped.
TickDropped ==
    /\ entry = "VerifyLicensePeriodically"
    /\ pc \in {"readLicenseFromFile", "validateLicense"} \cup HandlerPcs
    /\ ticks < MaxTicks
    /\ ticks' = ticks + 1
    /\ UNCHANGED << clientVars, ghostVars, entry, pc, opt, stepErr, vresult, retval, stopClosed, stopAtTick,
                    stopForwarded, attempts, handlerVars >>

\* The caller closes stopCh.
CloseStop ==
    /\ entry = "VerifyLicensePeriodically"
    /\ pc \notin {"returned", "exited", "killed"}
    /\ ~stopClosed
    /\ stopClosed' = TRUE
    /\ stopAtTick' = ticks
    /\ stopForwarded' = stopForwarded
    /\ UNCHANGED << clientVars, ghostVars, entry, pc, opt, stepErr, vresult, retval, ticks, attempts,
                    handlerVars >>

\* wait.PollUntil's goroutine has seen the closed stopCh and closes the done
\* channel of the poll loop.  It runs while PollUntil has not returned.
ForwardStop ==
    /\ entry = "VerifyLicensePeriodically"
    /\ pc \in {"pollWait", "readLicenseFromFile", "validateLicense"} \cup HandlerPcs
    /\ stopClosed
    /\ ~stopForwarded
    /\ stopForwarded' = TRUE
    /\ UNCHANGED << clientVars, ghostVars, entry, pc, opt, stepErr, vresult, retval, stopClosed,
                    stopAtTick, ticks, attempts, handlerVars >>

\* The error of wait.PollUntil is handed to the failure handler.
PollStopped_CallsHandler ==
    /\ entry = "VerifyLicensePeriodically"
    /\ pc = "pollWait"
    /\ PollStopCh
    /\ pc' = "handler"
    /\ licenseErr' = ErrWaitTimeout
    /\ UNCHANGED << clientVars, ghostVars, entry, opt, stepErr, vresult, retval, sessionVars, herr,
                    hsteps, hparent, houtcome, sigintSent, exitCode, events >>

\* wait.PollUntil sees the closed stop channel while it waits: ErrWaitTimeout.
PollStopped ==
    /\ entry = "VerifyLicensePeriodically"
    /\ pc = "pollWait"
    /\ PollStopCh
    /\ pc' = "returned"
    /\ retval' = ErrWaitTimeout
    /\ UNCHANGED << clientVars, ghostVars, entry, opt, stepErr, vresult, sessionVars, handlerVars >>

\* opt.readLicenseFromFile(): ioutil.ReadFile overwrites opt.license with the
\* bytes of the file, or with nil and an error.
ReadLicenseFromFile ==
    /\ entry \in SessionEntries
    /\ pc = "readLicenseFromFile"
    /\ \/ \E bytes \in LicenseFiles :
            /\ opt' = [opt EXCEPT !.license = bytes]
            /\ licRead' = [attempt |-> attempts, bytes |-> bytes]
            /\ pc' = "validateLicense"
            /\ UNCHANGED << stepErr, retval, licenseErr >>
       \/ /\ opt' = [opt EXCEPT !.license = NilBytes]
          /\ licRead' = [attempt |-> attempts, bytes |-> NilBytes]
          /\ stepErr' = Err("credential read failed", "")
          /\ OnSessionError(Err("credential read failed", ""))
    /\ UNCHANGED << clientVars, events0, inCluster, entry, vresult, sessionVars, herr, hsteps, hparent, houtcome,
                    sigintSent, exitCode, events >>

\* opt.validateLicense() and what its caller does with the result: a direct
\* call returns it; VerifyLicense returns nil on success; the condition
\* function returns (true, nil) on success, which makes PollUntil return nil;
\* both hand an error to the failure handler.
ValidateLicense ==
    /\ pc = "validateLicense"
    /\ vresult' = validateLicense(opt)
    /\ IF entry = "validateLicense"
       THEN /\ pc' = "returned"
            /\ retval' = validateLicense(opt)
            /\ UNCHANGED << stepErr, licenseErr >>
       ELSE IF validateLicense(opt) = NilErr
       THEN /\ pc' = "returned"
            /\ retval' = NilErr
            /\ UNCHANGED << stepErr, licenseErr >>
       ELSE /\ stepErr' = validateLicense(opt)
            /\ OnSessionError(validateLicense(opt))
    /\ UNCHANGED << clientVars, ghostVars, entry, opt, sessionVars, herr, hsteps, hparent, houtcome,
                    sigintSent, exitCode, events >>

\* ------------------------------------------------- failure handler
\* The event mutation handed to CreateOrPatchEvent.  The message is formatted
\* from err.Error() of the handler's local err (not from licenseErr): calling
\* Error on a nil error aborts the mutation with a run-time panic.
EventTransform(in, ref, e) ==
    IF e = NilErr
    THEN [panic |-> TRUE, event |-> in]
    ELSE [panic |-> FALSE,
          event |-> [in EXCEPT !.involved = ref,
                               !.type = "Warning",
                               !.source = "License Verifier",
                               !.reason = "License Verification Failed",
                               !.message = e,
                               !.first = IF in.first = "zero" THEN "now" ELSE in.first,
                               !.last = "now",
                               !.count = in.count + 1]]

\* The handler body returns or panics: the deferred function runs either way.
HandlerBodyEnds(outcome) ==
    /\ houtcome' = outcome
    /\ pc' = "deferKill"

\* The check of meta.PossiblyInCluster() has no effect: reporting goes on.
HandlerInCluster_ReportsAnyway ==
    /\ pc = "handler"
    /\ \E possibly \in BOOLEAN :
         /\ inCluster' = IF possibly THEN "yes" ELSE "no"
         /\ pc' = "hostname"
         /\ hsteps' = hsteps \cup {"log", "inCluster"}
         /\ UNCHANGED houtcome
    /\ UNCHANGED << clientVars, events0, licRead, entry, opt, stepErr, vresult, retval,
                    sessionVars, licenseErr, herr, hparent, sigintSent, exitCode, events >>

\* Log the failure; meta.PossiblyInCluster(): no event outside a cluster.
HandlerInCluster ==
    /\ pc = "handler"
    /\ \E possibly \in BOOLEAN :
         IF possibly
         THEN /\ inCluster' = "yes"
              /\ pc' = "hostname"
              /\ hsteps' = hsteps \cup {"log", "inCluster"}
              /\ UNCHANGED houtcome
         ELSE /\ inCluster' = "no"
              /\ HandlerBodyEnds("return")
              /\ hsteps' = hsteps \cup {"log", "inCluster"}
    /\ UNCHANGED << clientVars, events0, licRead, entry, opt, stepErr, vresult, retval,
                    sessionVars, licenseErr, herr, hparent, sigintSent, exitCode, events >>

\* os.Hostname() and meta.Namespace().
HandlerHostname ==
    /\ pc = "hostname"
    /\ \E ok \in BOOLEAN :
         IF ok
         THEN /\ pc' = "detectWorkload"
              /\ hsteps' = hsteps \cup {"hostname", "namespace"}
              /\ UNCHANGED << herr, houtcome >>
         ELSE /\ herr' = Err("hostname lookup failed", "")
              /\ hsteps' = hsteps \cup {"hostname"}
              /\ HandlerBodyEnds("return")
    /\ UNCHANGED << clientVars, ghostVars, entry, opt, stepErr, vresult, retval, sessionVars, licenseErr,
                    hparent, sigintSent, exitCode, events >>

\* dynamic.DetectWorkload: the root controller of the pod, or an error.
HandlerDetectWorkload ==
    /\ pc = "detectWorkload"
    /\ hsteps' = hsteps \cup {"detectWorkload"}
    /\ \/ \E root \in Roots :
            /\ hparent' = root
            /\ pc' = "getReference"
            /\ UNCHANGED << herr, houtcome >>
       \/ /\ herr' = Err("workload detection failed", "")
          /\ hparent' = hparent
          /\ HandlerBodyEnds("return")
    /\ UNCHANGED << clientVars, ghostVars, entry, opt, stepErr, vresult, retval, sessionVars, licenseErr,
                    sigintSent, exitCode, events >>

\* reference.GetReference: assigns the same local err.
HandlerGetReference ==
    /\ pc = "getReference"
    /\ hsteps' = hsteps \cup {"getReference"}
    /\ \E ok \in BOOLEAN :
         IF ok
         THEN /\ herr' = NilErr
              /\ pc' = "createOrPatchEvent"
              /\ UNCHANGED houtcome
         ELSE /\ herr' = Err("object reference failed", "")
              /\ HandlerBodyEnds("return")
    /\ UNCHANGED << clientVars, ghostVars, entry, opt, stepErr, vresult, retval, sessionVars, licenseErr,
                    hparent, sigintSent, exitCode, events >>

\* core_util.CreateOrPatchEvent on the event "<root>-license".  With the nil
\* client that a failed createClients left in opt.k8sClient, c.CoreV1() panics
\* before anything is asked of the API server.  Otherwise a failed Get returns
\* its error, or the mutation is applied to a new event (not found) or to a
\* copy of the current one, and the result is created or patched, which
\* succeeds or fails.
HandlerCreateOrPatchEvent ==
    /\ pc = "createOrPatchEvent"
    /\ \E getOK \in BOOLEAN, writeOK \in BOOLEAN :
         LET t == EventTransform(events[hparent], hparent, herr)
         IN  IF opt.k8sClient = "nil"
             THEN /\ herr' = herr
                  /\ hsteps' = hsteps
                  /\ events' = events
                  /\ HandlerBodyEnds("panic")
             ELSE IF ~getOK
             THEN /\ herr' = Err("event get failed", "")
                  /\ hsteps' = hsteps \cup {"getEvent"}
                  /\ events' = events
                  /\ HandlerBodyEnds("return")
             ELSE IF t.panic
             THEN /\ herr' = herr
                  /\ hsteps' = hsteps \cup {"getEvent", "transform"}
                  /\ events' = events
                  /\ HandlerBodyEnds("panic")
             ELSE IF writeOK
             THEN /\ herr' = NilErr
                  /\ hsteps' = hsteps \cup {"getEvent", "transform", "writeEvent"}
                  /\ events' = [events EXCEPT ![hparent] = t.event]
                  /\ HandlerBodyEnds("return")
             ELSE /\ herr' = Err("event write failed", "")
                  /\ hsteps' = hsteps \cup {"getEvent", "transform", "writeEvent"}
                  /\ events' = events
                  /\ HandlerBodyEnds("return")
    /\ UNCHANGED << clientVars, ghostVars, entry, opt, stepErr, vresult, retval, sessionVars, licenseErr,
                    hparent, sigintSent, exitCode >>

\* Deferred: syscall.Kill(syscall.Getpid(), syscall.SIGINT).  What the signal
\* does is the host program's choice, this package installs no handler: where
\* SIGINT is handled or ignored the deferred function goes on to os.Exit(1);
\* with the default disposition the signal terminates the process, unless
\* os.Exit(1) is reached first.
HandlerDeferKill ==
    /\ pc = "deferKill"
    /\ sigintSent' = TRUE
    /\ \E goesOn \in BOOLEAN : pc' = IF goesOn THEN "deferExit" ELSE "killed"
    /\ UNCHANGED << clientVars, ghostVars, entry, opt, stepErr, vresult, retval, sessionVars, licenseErr,
                    herr, hsteps, hparent, houtcome, exitCode, events >>

\* No os.Exit in the deferred function: the handler's value is returned.
HandlerDeferExit_Returns ==
    /\ pc = "deferExit"
    /\ retval' = herr
    /\ pc' = "returned"
    /\ UNCHANGED << clientVars, ghostVars, entry, opt, stepErr, vresult, sessionVars, licenseErr,
                    herr, hsteps, hparent, houtcome, sigintSent, exitCode, events >>

\* Deferred: os.Exit(1).  The handler's return value reaches no caller.
HandlerDeferExit ==
    /\ pc = "deferExit"
    /\ exitCode' = 1
    /\ pc' = "exited"
    /\ UNCHANGED << clientVars, ghostVars, entry, opt, stepErr, vresult, retval, sessionVars, licenseErr,
                    herr, hsteps, hparent, houtcome, sigintSent, events >>

HandlerStep ==
    \/ HandlerInCluster
    \/ HandlerHostname
    \/ HandlerDetectWorkload
    \/ HandlerGetReference
    \/ HandlerCreateOrPatchEvent
    \/ HandlerDeferKill
    \/ HandlerDeferExit

\* ------------------------------------------------ license acquisition
ClientEntries == {"AcquireLicense", "Client.AcquireLicense"}

\* A call of AcquireLicense, or of NewClient followed by Client.AcquireLicense.
InitClient ==
    /\ entry \in ClientEntries
    /\ pc = IF entry = "AcquireLicense" THEN "acquire" ELSE "newClient"
    /\ opt = NewLicenseOptions
    /\ events = [r \in Roots |-> NoEvent]
    /\ EnforceLicense \in EnforceLicenseValues
    /\ creq \in { [baseURL |-> b, token |-> t, clusterUID |-> "cluster-123",
                   features |-> << "alpha" >>] :
                    b \in (IF entry = "AcquireLicense" THEN {<< >>} ELSE BaseURLs),
                    t \in {"", "token"} }
    /\ curl = << >>
    /\ posts = 0
    /\ cmethod = ""
    /\ redirects = 0
    /\ cresp = NoResponse
    /\ cres = NoResult

\* AcquireLicense after the body was read: the status check, then the decoding.
AcquireLicenseResult(resp) ==
    IF resp.status # StatusOK
    THEN [done |-> TRUE, license |-> NilBytes,
          err |-> NewGenericServerResponse(resp.status, resp.body),
          decoded |-> FALSE]
    ELSE LET lc == jsonUnmarshal(resp.body)
         IN  IF ~lc.ok
             THEN [done |-> TRUE, license |-> NilBytes,
                   err |-> AcqErr("unmarshal", 0, NoBody), decoded |-> TRUE]
             ELSE [done |-> TRUE, license |-> lc.License, err |-> NoAcqErr,
                   decoded |-> TRUE]

\* Variant of the client's status check that accepts every 2xx status.
ClientAcquireLicenseResult_Any2xx(resp) ==
    IF resp.status < 200 \/ resp.status > 299
    THEN [done |-> TRUE, license |-> NilBytes,
          err |-> NewGenericServerResponse(resp.status, resp.body),
          decoded |-> FALSE]
    ELSE LET lc == jsonUnmarshal(resp.body)
         IN  IF ~lc.ok
             THEN [done |-> TRUE, license |-> NilBytes,
                   err |-> AcqErr("unmarshal", 0, NoBody), decoded |-> TRUE]
             ELSE [done |-> TRUE, license |-> lc.License, err |-> NoAcqErr,
                   decoded |-> TRUE]

\* Client.AcquireLicense after the body was read (the contract is not modelled).
ClientAcquireLicenseResult(resp) ==
    IF resp.status # StatusOK
    THEN [done |-> TRUE, license |-> NilBytes,
          err |-> NewGenericServerResponse(resp.status, resp.body),
          decoded |-> FALSE]
    ELSE LET lc == jsonUnmarshal(resp.body)
         IN  IF ~lc.ok
             THEN [done |-> TRUE, license |-> NilBytes,
                   err |-> AcqErr("unmarshal", 0, NoBody), decoded |-> TRUE]
             ELSE [done |-> TRUE, license |-> lc.License, err |-> NoAcqErr,
                   decoded |-> TRUE]

verifierVars == << opt, stepErr, vresult, retval, sessionVars, handlerVars >>

\* NewClient(baseURL, token, clusterUID).
NewClient ==
    /\ entry = "Client.AcquireLicense"
    /\ pc = "newClient"
    /\ LET c == NewClientURL(creq.baseURL, EnforceLicense)
       IN  IF c.ok
           THEN /\ curl' = c.url
                /\ pc' = "acquire"
                /\ cres' = cres
           ELSE /\ curl' = curl
                /\ pc' = "returned"
                /\ cres' = [done |-> TRUE, license |-> NilBytes,
                            err |-> AcqErr("urlparse", 0, NoBody), decoded |-> FALSE]
    /\ UNCHANGED << ghostVars, entry, verifierVars, EnforceLicense, creq, posts, cmethod,
                    redirects, cresp >>

\* How a round trip inside http.DefaultClient.Do ends: a transport error, or
\* an error while the body is read, is returned as it is; a response with its
\* body goes on to the status check; a redirect response with a Location is
\* followed by the client.
RoundTripEnds ==
    \/ \E kind \in {"transport", "read"} :
         /\ cres' = [done |-> TRUE, license |-> NilBytes,
                     err |-> AcqErr(kind, 0, NoBody), decoded |-> FALSE]
         /\ cresp' = cresp
         /\ pc' = "returned"
    \/ \E st \in StatusCodes, b \in Bodies :
         /\ cresp' = [status |-> st, body |-> b]
         /\ cres' = cres
         /\ pc' = "acquireResponse"
    \/ /\ cresp' = cresp
       /\ cres' = cres
       /\ pc' = "redirect"

\* Variant that sends the request again after a transport or read error.
AcquireSend_Retry ==
    /\ entry \in ClientEntries
    /\ pc = "acquire"
    /\ curl' = IF entry = "AcquireLicense" THEN LicenseIssuerAPIEndpoint(EnforceLicense)
               ELSE curl
    /\ posts' = posts + 1
    /\ cmethod' = "POST"
    /\ redirects' = redirects
    /\ \/ RoundTripEnds
       \/ /\ posts = 0
          /\ UNCHANGED << cres, cresp, pc >>
    /\ UNCHANGED << ghostVars, entry, verifierVars, EnforceLicense, creq >>

\* The request is built and handed to http.DefaultClient.Do, once, and the
\* body of the response is read.
AcquireSend ==
    /\ entry \in ClientEntries
    /\ pc = "acquire"
    /\ curl' = IF entry = "AcquireLicense" THEN LicenseIssuerAPIEndpoint(EnforceLicense)
               ELSE curl
    /\ posts' = posts + 1
    /\ cmethod' = "POST"
    /\ redirects' = redirects
    /\ RoundTripEnds
    /\ UNCHANGED << ghostVars, entry, verifierVars, EnforceLicense, creq >>

\* Inside the same Do: http.DefaultClient follows a redirect.  307 and 308
\* keep the method and the body, so the POST is sent again to the new
\* location; 301, 302 and 303 go on with GET.  After too many redirects Do
\* returns an error.
AcquireRedirect ==
    /\ entry \in ClientEntries
    /\ pc = "redirect"
    /\ IF redirects >= MaxRedirects
       THEN /\ cres' = [done |-> TRUE, license |-> NilBytes,
                        err |-> AcqErr("transport", 0, NoBody), decoded |-> FALSE]
            /\ pc' = "returned"
            /\ UNCHANGED << posts, cmethod, redirects, cresp >>
       ELSE \E keepsMethod \in BOOLEAN :
              /\ cmethod' = IF keepsMethod THEN cmethod ELSE "GET"
              /\ posts' = IF keepsMethod /\ cmethod = "POST" THEN posts + 1 ELSE posts
              /\ redirects' = redirects + 1
              /\ RoundTripEnds
    /\ UNCHANGED << ghostVars, entry, verifierVars, EnforceLicense, creq, curl >>

\* The status check and the decoding of the body.
AcquireFinish ==
    /\ entry \in ClientEntries
    /\ pc = "acquireResponse"
    /\ cres' = IF entry = "AcquireLicense" THEN AcquireLicenseResult(cresp)
               ELSE ClientAcquireLicenseResult(cresp)
    /\ pc' = "returned"
    /\ UNCHANGED << ghostVars, entry, verifierVars, EnforceLicense, creq, curl, posts, cmethod,
                    redirects, cresp >>

\* ------------------------------------------------------ specification
Init == InitCommon /\ (InitValidator \/ InitSession \/ InitClient) /\ InitHistory

Next ==
    \/ CreateClients
    \/ ReadClusterUID
    \/ PollTick
    \/ TickDropped
    \/ CloseStop
    \/ ForwardStop
    \/ PollStopped
    \/ ReadLicenseFromFile
    \/ ValidateLicense
    \/ HandlerStep
    \/ NewClient
    \/ AcquireSend
    \/ AcquireRedirect
    \/ AcquireFinish

Spec == Init /\ [][Next]_vars

\* The handler's local steps are straight-line code and are taken once they
\* are reached.  Its two requests to the API server (workload detection and
\* the event upsert) are made with context.TODO() and no timeout of this
\* package: nothing makes them return.
HandlerLocalStep ==
    \/ HandlerInCluster
    \/ HandlerHostname
    \/ HandlerGetReference
    \/ HandlerDeferKill
    \/ HandlerDeferExit

FairSpec == Spec /\ WF_vars(HandlerLocalStep)

\* -------------------------------------------------------------- claims
GoodCert == LeafCert("LicenseCA", {"cluster-123"}, {"Acme"}, {"clientAuth"}, FALSE)

\* The five checks of the validator, each on its own.
Decodes(o) == pemDecode(o.license).found
ParsesAsCert(o) == Decodes(o) /\ pemDecode(o.license).Bytes.typ = "cert"
PoolBuilds(o) == AppendCertsFromPEM(o.caCert) # {}
ChainVerifies(o) ==
    CertVerify(pemDecode(o.license).Bytes, o.clusterUID, AppendCertsFromPEM(o.caCert),
               "clientAuth")
OrgHasProduct(o) == o.productName \in pemDecode(o.license).Bytes.org

DecodeFailure == Err("failed to parse certificate PEM", "")
ParseFailure == Err("failed to parse certificate", "")
RootPoolFailure == Err("failed to parse root certificate", "")
ChainFailure == Err("failed to verify certificate", "")
ProductMismatch(o) == Err("license was not issued for %s", o.productName)

\* Credentials that are empty, not PEM, truncated PEM, or PEM around bytes that
\* are no certificate.
MalformedCredentials ==
    { NilBytes, << TextLine >>, << TextLine, TextLine >>, TruncatedPem(GoodCert),
      TruncatedPem(CACert("LicenseCA")), PemOf("CERTIFICATE", JunkDer),
      EmptyPem("CERTIFICATE"),
      << BeginLine("CERTIFICATE"), B64Line(JunkDer), EndLine("OTHER") >> }

Validated == vresult # NotCalled

\* C1 (as claimed): once a session step (client construction, identity
\* resolution, license read, validation) of VerifyLicense or
\* VerifyLicensePeriodically has failed, its error is the one handed to
\* handleLicenseVerificationFailure, nothing is returned to the caller, no
\* further attempt starts, the process is inside the handler or has ended
\* there, and it does end: terminated by its own SIGINT or exited with a
\* non-zero status.
C1_FailClosed ==
    /\ [](stepErr # NilErr =>
            /\ licenseErr = stepErr
            /\ pc \in HandlerPcs \cup {"exited", "killed"}
            /\ retval = NilErr
            /\ (pc = "exited" => exitCode # 0))
    /\ [][stepErr # NilErr => attempts' = attempts]_vars
    /\ (stepErr # NilErr) ~> (pc = "killed" \/ (pc = "exited" /\ exitCode # 0))

\* C2 (as claimed): once handleLicenseVerificationFailure is entered the
\* process eventually has sent itself SIGINT and exited with status 1, whatever
\* the reporting steps did; and the exit never precedes the signal.
C2_HandlerTerminates ==
    /\ (pc = "handler") ~> (pc = "exited" /\ exitCode = 1 /\ sigintSent)
    /\ [](exitCode # 0 => sigintSent)
    /\ [](pc \in {"exited", "killed"} => exitCode = 1)

\* The license held is a certificate that chains to the license CA, names
\* the resolved cluster identity, has client-auth usage and is issued to the
\* product.
HoldsValidLicense(o) ==
    \E c \in LeafCerts :
        /\ o.license = PemOf("CERTIFICATE", c)
        /\ c.issuer = "LicenseCA"
        /\ ~c.expired
        /\ o.clusterUID \in c.dns
        /\ "clientAuth" \in c.eku
        /\ ProductName \in c.org

\* C3 (as claimed): in periodic mode a successful attempt does not end the
\* loop: when the validation of an attempt ends with nil, or is the validation
\* of a valid license, the session goes back to waiting for the next interval.
C3_SuccessKeepsLooping ==
    [][( /\ entry = "VerifyLicensePeriodically"
         /\ pc = "validateLicense"
         /\ pc' # pc
         /\ (vresult' = NilErr \/ HoldsValidLicense(opt)) )
       => pc' = "pollWait"]_vars

\* C4 (as claimed): when stopCh is closed after k intervals have elapsed, at
\* most k attempts ever start; no attempt starts once it is closed; and closing
\* it leaves an attempt that is under way where it is.
C4_CancelStopsAttempts ==
    /\ [](stopClosed => attempts <= stopAtTick)
    /\ [][stopClosed => attempts' = attempts]_vars
    /\ [][(~stopClosed /\ stopClosed') => (pc' = pc /\ opt' = opt)]_vars

\* C4 (amended): no attempt starts once the poll loop's done channel is closed,
\* which happens some time after stopCh is closed; until then one more tick
\* may start an attempt, so with stopCh closed after k intervals at most k + 1
\* attempts start; closing stopCh and forwarding it leave an attempt that is
\* under way where it is.
C4_SeenCancelStopsAttempts ==
    /\ [][stopForwarded => attempts' = attempts]_vars
    /\ [](stopClosed => attempts <= stopAtTick + 1)
    /\ [](stopForwarded => stopClosed)
    /\ [][(~stopClosed /\ stopClosed') => (pc' = pc /\ opt' = opt)]_vars
    /\ [][(~stopForwarded /\ stopForwarded') => (pc' = pc /\ opt' = opt)]_vars

C4_Witness ==
    /\ stopClosed
    /\ stopForwarded
    /\ stopAtTick = 0
    /\ attempts = 1
    /\ pc = "validateLicense"

\* C5 (as claimed): when VerifyLicense has built the client, resolved the
\* cluster identity and read a license file holding a certificate that chains
\* to the license CA, names the cluster identity, has client-auth usage and is
\* issued to the product, it returns nil and the failure handler is not entered.
C5_OneShotAcceptsValidLicense ==
    ( /\ entry = "VerifyLicense"
      /\ Validated
      /\ \E c \in LeafCerts :
           /\ opt.license = PemOf("CERTIFICATE", c)
           /\ c.issuer = "LicenseCA"
           /\ ~c.expired
           /\ opt.clusterUID \in c.dns
           /\ "clientAuth" \in c.eku
           /\ ProductName \in c.org )
    => (pc = "returned" /\ retval = NilErr /\ licenseErr = NilErr)

\* C6: validateLicense returns nil exactly when all five checks pass (PEM
\* decode, certificate parse, non-empty root pool, chain verification with the
\* cluster identity as DNS name and client-auth usage, product in the subject's
\* organizations); a malformed credential gives the decode or the parse failure.
C6_SuccessIffAllChecks ==
    Validated =>
        /\ (vresult = NilErr) <=>
             ( /\ Decodes(opt)
               /\ ParsesAsCert(opt)
               /\ PoolBuilds(opt)
               /\ ChainVerifies(opt)
               /\ OrgHasProduct(opt) )
        /\ (opt.license \in MalformedCredentials =>
              vresult \in {DecodeFailure, ParseFailure})

C6_Witness ==
    /\ entry = "validateLicense"
    /\ pc = "returned"
    /\ vresult = NilErr
    /\ opt.license = PemOf("CERTIFICATE", GoodCert)
    /\ opt.clusterUID = "cluster-123"
    /\ opt.productName = "Acme"

\* C7 (as claimed): for a certificate whose DNS names do not include the
\* cluster identity, validateLicense returns the chain failure whatever the
\* trust root is.
C7_NameMismatchIsChainFailure ==
    (Validated /\ ParsesAsCert(opt) /\ opt.clusterUID \notin pemDecode(opt.license).Bytes.dns)
    => vresult = ChainFailure

\* C7 (amended): for a certificate whose DNS names do not include the cluster
\* identity, when that identity is not empty, validateLicense never returns
\* nil: it returns the chain failure when the trust root yields a root pool
\* and the root-pool failure when it does not. With the empty identity
\* Verify makes no name check: a certificate of the license CA, in its validity
\* period, with client-auth usage and issued to the product is accepted
\* whatever its DNS names are.
C7_NameMismatchNeverSucceeds ==
    /\ (Validated /\ ParsesAsCert(opt) /\ opt.clusterUID # ""
           /\ opt.clusterUID \notin pemDecode(opt.license).Bytes.dns)
       => /\ vresult # NilErr
          /\ (PoolBuilds(opt) => vresult = ChainFailure)
          /\ (~PoolBuilds(opt) => vresult = RootPoolFailure)
    /\ (Validated /\ ParsesAsCert(opt) /\ opt.clusterUID = ""
           /\ opt.caCert = LicenseCA
           /\ pemDecode(opt.license).Bytes.issuer = "LicenseCA"
           /\ ~pemDecode(opt.license).Bytes.expired
           /\ "clientAuth" \in pemDecode(opt.license).Bytes.eku
           /\ opt.productName \in pemDecode(opt.license).Bytes.org)
       => vresult = NilErr

C7_Witness ==
    /\ Validated
    /\ opt.caCert = LicenseCA
    /\ opt.clusterUID = "cluster-456"
    /\ opt.productName = "Acme"
    /\ opt.license = PemOf("CERTIFICATE", GoodCert)
    /\ vresult = ChainFailure

\* C8 (as claimed): AcquireLicense and Client.AcquireLicense, once the issuer
\* has answered:
\* a status other than 200 gives the server-response error with that status and
\* the raw body, nil bytes, and the body is not deserialized; status 200 with a
\* body that deserializes gives the decoded bytes and no error; status 200 with
\* a body that does not deserialize gives an error and nil bytes.
C8_AcquireResult ==
    (entry \in ClientEntries /\ pc = "returned" /\ cresp # NoResponse) =>
        /\ cres.done
        /\ (cresp.status # 200 =>
              /\ cres.err = AcqErr("server", cresp.status, cresp.body)
              /\ cres.license = NilBytes
              /\ ~cres.decoded)
        /\ (cresp.status = 200 /\ jsonUnmarshal(cresp.body).ok =>
              /\ cres.err = NoAcqErr
              /\ cres.license = jsonUnmarshal(cresp.body).License)
        /\ (cresp.status = 200 /\ ~jsonUnmarshal(cresp.body).ok =>
              /\ cres.err = AcqErr("unmarshal", 0, NoBody)
              /\ cres.license = NilBytes)

ProdEndpoint == prodAddress \o << "/" >> \o licenseIssuerAPIPath
QaEndpoint == qaAddress \o << "/" >> \o licenseIssuerAPIPath

RequestSent == entry \in ClientEntries /\ posts > 0

\* C9 (as claimed): with no base address, the request goes to the production
\* endpoint whenever the flag is unset or false.
C9_UnsetOrFalseSelectsProduction ==
    (RequestSent /\ creq.baseURL = << >> /\ EnforceLicense \in {"", "false", "0"})
    => curl = ProdEndpoint

\* C9 (amended): with no base address, the request goes to the production
\* address joined with the fixed path exactly when info.EnforceLicense parses
\* as true, and to the non-production address joined with the fixed path when
\* it is unset, false or no boolean; with a base address that parses, it goes
\* to that address's scheme and host followed by its cleaned path joined with
\* the fixed path; a base address that does not parse sends no request.
C9_EndpointResolution ==
    /\ (RequestSent /\ creq.baseURL = << >>) =>
          curl = (IF EnforceLicense \in {"true", "1"} THEN ProdEndpoint ELSE QaEndpoint)
    /\ (RequestSent /\ creq.baseURL # << >>) =>
          LET b == urlParse(creq.baseURL)
              u == urlParse(curl)
          IN  /\ b.ok /\ u.ok
              /\ u.scheme = b.scheme
              /\ u.host = b.host
              /\ u.path[1] = "/"
              /\ u.path[Len(u.path)] # "/"
              /\ SelectSeq(u.path, IsSegment) =
                   cleanSegments(SelectSeq(b.path, IsSegment), << >>, TRUE)
                   \o SelectSeq(licenseIssuerAPIPath, IsSegment)
    /\ (entry = "Client.AcquireLicense" /\ ~urlParse(creq.baseURL).ok) => posts = 0

C9_Witness ==
    /\ RequestSent
    /\ creq.baseURL = << >>
    /\ EnforceLicense = ""
    /\ curl = QaEndpoint

\* C10: a failure of validateLicense is the failure of the earliest failing
\* step in the order decode, parse, root pool, chain, organization: each
\* failure is returned only when its own step fails and every earlier step
\* passes.  A certificate that passes the chain and identity checks without the
\* product in its organizations gives the product mismatch; an unparsable trust
\* root together with a wrong organization gives the root-pool failure.
C10_EarliestFailureReported ==
    (Validated /\ vresult # NilErr) =>
        /\ vresult \in {DecodeFailure, ParseFailure, RootPoolFailure, ChainFailure,
                        ProductMismatch(opt)}
        /\ (vresult = DecodeFailure => ~Decodes(opt))
        /\ (vresult = ParseFailure => Decodes(opt) /\ ~ParsesAsCert(opt))
        /\ (vresult = RootPoolFailure => ParsesAsCert(opt) /\ ~PoolBuilds(opt))
        /\ (vresult = ChainFailure =>
              ParsesAsCert(opt) /\ PoolBuilds(opt) /\ ~ChainVerifies(opt))
        /\ (vresult = ProductMismatch(opt) =>
              /\ ParsesAsCert(opt) /\ PoolBuilds(opt) /\ ChainVerifies(opt)
              /\ ~OrgHasProduct(opt))
        /\ (ParsesAsCert(opt) /\ PoolBuilds(opt) /\ ChainVerifies(opt)
              => vresult = ProductMismatch(opt))
        /\ (ParsesAsCert(opt) /\ ~PoolBuilds(opt) /\ ~OrgHasProduct(opt)
              => vresult = RootPoolFailure)

C10_Witness ==
    /\ Validated
    /\ opt.license = PemOf("CERTIFICATE", GoodCert)
    /\ opt.caCert = << TextLine >>
    /\ opt.productName = "Other"
    /\ vresult = RootPoolFailure

\* ----------------------------------------------------- failure report
ReportingSteps ==
    {"hostname", "namespace", "detectWorkload", "getReference", "getEvent",
     "transform", "writeEvent"}

\* The handler got as far as the event mutation: it ran in-cluster, workload
\* detection and reference resolution succeeded and the event was looked up.
MutationApplied == "transform" \in hsteps

\* The API server refused the create or patch of the event.
WriteRefused == "writeEvent" \in hsteps /\ herr # NilErr

\* C11: when the handler runs in-cluster and workload detection and reference
\* resolution succeed, the event mutation yields an event on the root
\* controller of type Warning with reason "License Verification Failed" whose
\* message is the verification failure handed to the handler; unless the API
\* server refuses the write, that event is what the cluster then holds.
C11_EventCarriesFailure ==
    MutationApplied =>
        /\ houtcome # "panic"
        /\ (~WriteRefused =>
              /\ events[hparent].involved = hparent
              /\ events[hparent].type = "Warning"
              /\ events[hparent].reason = "License Verification Failed"
              /\ events[hparent].message = licenseErr)

\* C12: a failure report that got as far as the event mutation, and whose write
\* the API server did not refuse, leaves one event for the root controller
\* whose count is the earlier count plus one (1 when there was none), whose
\* last timestamp is now and whose first timestamp is the earlier one (now when
\* there was none); the events of other root controllers are untouched.
C12_ReportUpsertsOneEvent ==
    (pc \in {"exited", "killed"} /\ MutationApplied /\ ~WriteRefused) =>
        /\ events[hparent].count = events0[hparent].count + 1
        /\ events[hparent].last = "now"
        /\ events[hparent].first =
              (IF events0[hparent].count = 0 THEN "now" ELSE events0[hparent].first)
        /\ \A r \in Roots \ {hparent} : events[r] = events0[r]

\* ----------------------------------------------------- periodic session
Periodic == entry = "VerifyLicensePeriodically"

AttemptInFlight == pc \in {"readLicenseFromFile", "validateLicense"}

\* C13: in a periodic session the platform client is set only by the
\* createClients step and the cluster identity only by the readClusterUID step,
\* each taken once and before the first tick, and no later step changes them;
\* every attempt reads the license file before it validates, so the bytes it
\* validates are the bytes read in that same attempt.
C13_SetupOnceReadEveryTick ==
    /\ [][(Periodic /\ opt'.k8sClient # opt.k8sClient)
            => (pc = "createClients" /\ pc' # "createClients"
                /\ ticks = 0 /\ attempts = 0)]_vars
    /\ [][(Periodic /\ opt'.clusterUID # opt.clusterUID)
            => (pc = "readClusterUID" /\ pc' # "readClusterUID"
                /\ ticks = 0 /\ attempts = 0)]_vars
    /\ [][(Periodic /\ pc' \in {"createClients", "readClusterUID"})
            => pc' = pc \/ (pc = "createClients" /\ pc' = "readClusterUID")]_vars
    /\ [][(Periodic /\ opt'.license # opt.license) => pc = "readLicenseFromFile"]_vars
    /\ []((Periodic /\ (pc = "validateLicense" \/ Validated))
            => (/\ licRead.attempt = attempts
                /\ licRead.bytes = opt.license
                /\ attempts >= 1))
    /\ []((Periodic /\ Validated) => vresult = validateLicense(opt))

C13_Witness ==
    /\ Periodic
    /\ Validated
    /\ ticks >= 1
    /\ opt.k8sClient = "client"
    /\ opt.clusterUID \in NamespaceUIDs
    /\ opt.license = PemOf("CERTIFICATE", GoodCert)
    /\ licRead = [attempt |-> attempts, bytes |-> opt.license]

\* C14: in a periodic session an attempt starts only while the poll loop is
\* waiting, that is when no earlier attempt (read, validation, or the handler
\* it called) is still running; intervals that elapse during an attempt start
\* nothing.
C14_AttemptsDoNotOverlap ==
    /\ [][(Periodic /\ attempts' # attempts)
            => (pc = "pollWait" /\ attempts' = attempts + 1 /\ pc' = ConditionStart)]_vars
    /\ [][(Periodic /\ (AttemptInFlight \/ pc \in HandlerPcs) /\ ticks' # ticks)
            => (attempts' = attempts /\ pc' = pc /\ opt' = opt)]_vars

C14_Witness ==
    /\ Periodic
    /\ pc = "validateLicense"
    /\ attempts = 1
    /\ ticks >= 2

\* C15: when meta.PossiblyInCluster() is false the handler takes none of the
\* reporting steps, leaves the events as they were and goes straight to the
\* deferred termination.
C15_NotInClusterSkipsReport ==
    inCluster = "no" =>
        /\ hsteps \cap ReportingSteps = {}
        /\ events = events0
        /\ houtcome = "return"
        /\ herr = NilErr
        /\ pc \in {"deferKill", "deferExit", "exited", "killed"}

C15_Witness ==
    /\ inCluster = "no"
    /\ hsteps = {"log", "inCluster"}
    /\ pc = "exited"
    /\ sigintSent
    /\ exitCode = 1

\* C16 (as claimed): a call of AcquireLicense or Client.AcquireLicense sends at
\* most one POST.
C16_AtMostOnePost ==
    entry \in ClientEntries => posts <= 1

\* C16 (amended): a call hands its request to http.DefaultClient.Do once and
\* never sends it again after a transport error, a read error, a non-success
\* status or a decoding error; a further POST goes out only inside that one Do,
\* when the issuer answers with a redirect that keeps the method, so the POSTs
\* sent are at most one more than the redirects followed.
C16_OneDoNoResend ==
    /\ [](entry \in ClientEntries =>
            /\ posts <= 1 + redirects
            /\ (pc \in {"acquireResponse", "redirect"} => posts >= 1)
            /\ (pc = "returned" =>
                  IF cres.err.kind = "urlparse" THEN posts = 0 ELSE posts >= 1))
    /\ [][(entry \in ClientEntries /\ posts' # posts) =>
            /\ posts' = posts + 1
            /\ \/ pc = "acquire" /\ posts = 0
               \/ pc = "redirect" /\ cmethod = "POST" /\ redirects' = redirects + 1]_vars
    /\ [][(entry \in ClientEntries /\ pc \in {"acquireResponse", "returned"}) =>
            posts' = posts]_vars

C16_Witness ==
    /\ entry = "AcquireLicense"
    /\ pc = "returned"
    /\ cres.err = AcqErr("unmarshal", 0, NoBody)
    /\ redirects = 1
    /\ posts = 2

\* C17 (as claimed): a periodic session makes no attempt before one interval
\* has elapsed after the client and the cluster identity were obtained; when
\* the stop channel is closed before the first interval has elapsed the session
\* makes no attempt, reads no license and validates nothing.
C17_NoAttemptBeforeFirstTick ==
    Periodic =>
        /\ attempts <= ticks
        /\ ((AttemptInFlight \/ Validated \/ licRead # NeverRead) =>
              /\ ticks >= 1
              /\ attempts >= 1
              /\ opt.k8sClient = "client"
              /\ opt.clusterUID \in NamespaceUIDs)
        /\ ((stopClosed /\ stopAtTick = 0) =>
              /\ attempts = 0
              /\ ~AttemptInFlight
              /\ ~Validated
              /\ licRead = NeverRead)

\* C17 (amended): a periodic session makes no attempt before one interval has
\* elapsed after the client and the cluster identity were obtained; when the
\* poll loop's done channel is closed before any attempt has started the
\* session never makes an attempt, reads no license and validates nothing.  A
\* stopCh closed before the first interval has elapsed but not yet forwarded
\* to the done channel does not prevent the first attempt.
C17_NoAttemptBeforeTickOrAfterSeenStop ==
    /\ [](Periodic =>
            /\ attempts <= ticks
            /\ ((AttemptInFlight \/ Validated \/ licRead # NeverRead) =>
                  /\ ticks >= 1
                  /\ attempts >= 1
                  /\ opt.k8sClient = "client"
                  /\ opt.clusterUID \in NamespaceUIDs))
    /\ []((Periodic /\ stopForwarded /\ attempts = 0) =>
            [](/\ attempts = 0
               /\ ~AttemptInFlight
               /\ ~Validated
               /\ licRead = NeverRead))

C17_Witness ==
    /\ Periodic
    /\ stopClosed
    /\ stopForwarded
    /\ stopAtTick = 0
    /\ pc = "returned"
    /\ retval = ErrWaitTimeout
    /\ attempts = 0
    /\ ~Validated

\* C18: VerifyLicense returns to its caller only with nil after a successful
\* validation; VerifyLicensePeriodically returns only with nil after a
\* successful validation or with the poll loop's error after the stop channel
\* was closed; once the failure handler is entered nothing returns: the call
\* ends with the process (terminated by its own SIGINT or by os.Exit(1)) and
\* the caller sees no value.
C18_ReturnsOnlyWithoutFailure ==
    entry \in SessionEntries =>
        /\ (pc = "returned" =>
              /\ licenseErr = NilErr
              /\ stepErr = NilErr
              /\ hsteps = {}
              /\ exitCode = 0
              /\ \/ retval = NilErr /\ vresult = NilErr
                 \/ /\ Periodic
                    /\ retval = ErrWaitTimeout
                    /\ stopClosed
                    /\ ~Validated)
        /\ (licenseErr # NilErr =>
              /\ pc \in HandlerPcs \cup {"exited", "killed"}
              /\ retval = NilErr)
        /\ (pc \in {"exited", "killed"} => licenseErr # NilErr /\ sigintSent)
        /\ (pc = "exited" => exitCode = 1)

C18_Witness ==
    /\ entry = "VerifyLicense"
    /\ pc = "exited"
    /\ houtcome = "return"
    /\ herr = Err("hostname lookup failed", "")
    /\ licenseErr # NilErr
    /\ retval = NilErr
    /\ exitCode = 1

\* C19: when the poll loop, waiting, sees that the stop channel was closed,
\* VerifyLicensePeriodically returns the loop's timeout error: the failure
\* handler is not entered, no event is written, no signal is sent and the
\* process does not exit.
C19_CancelReturnsTimeout ==
    /\ [][(Periodic /\ pc = "pollWait" /\ stopForwarded /\ pc' # pc)
            => (/\ pc' = "returned"
                /\ retval' = ErrWaitTimeout
                /\ UNCHANGED << licenseErr, hsteps, events, sigintSent, exitCode >>)]_vars
    /\ []((Periodic /\ pc = "returned" /\ retval # NilErr)
            => (/\ retval = ErrWaitTimeout
                /\ stopClosed
                /\ licenseErr = NilErr
                /\ hsteps = {}
                /\ events = events0
                /\ ~sigintSent
                /\ exitCode = 0))
    /\ []((Periodic /\ pc = "returned") => [](pc = "returned" /\ exitCode = 0))

C19_Witness ==
    /\ Periodic
    /\ pc = "returned"
    /\ retval = ErrWaitTimeout
    /\ stopClosed
    /\ licenseErr = NilErr
    /\ events = events0
    /\ events["deploy-a"] = OldEvent("deploy-a")
    /\ ~sigintSent
    /\ exitCode = 0

\* C20: a response counts as success only with status 200: a call that
\* returned without error got status 200, and every other status, the other
\* 2xx codes included, gives the server-response error with that status, nil
\* bytes, and a body that was not deserialized.
C20_Only200IsSuccess ==
    (entry \in ClientEntries /\ pc = "returned" /\ cresp # NoResponse) =>
        /\ (cres.err = NoAcqErr => cresp.status = StatusOK)
        /\ (cres.decoded => cresp.status = StatusOK)
        /\ (cresp.status # StatusOK =>
              /\ cres.err = NewGenericServerResponse(cresp.status, cresp.body)
              /\ cres.err.kind = "server"
              /\ cres.err.code = cresp.status
              /\ cres.license = NilBytes
              /\ ~cres.decoded)

C20_Witness ==
    /\ entry = "Client.AcquireLicense"
    /\ pc = "returned"
    /\ cresp = [status |-> 201, body |-> Body("json", "string", TRUE, LicenseCA)]
    /\ cres.err = AcqErr("server", 201, NoBody)
    /\ cres.license = NilBytes
    /\ ~cres.decoded

====
